---- MODULE Spec2Model ----
(***************************************************************************)
(* Model of the Teams channel client of src/batch-update.ts: the           *)
(* conversation reference cache (inMemoryConversationRefs over bp.kvs),    *)
(* the inbound activity callback, sendOutgoingEvent with its payload       *)
(* translation, and the outgoing middleware handler.                       *)
(*                                                                         *)
(* Every async function is cut at its awaits: a task's position (pc) is    *)
(* the await it is suspended on, and any other task may run in between.    *)
(***************************************************************************)
EXTENDS Naturals, Sequences, FiniteSets, TLC

(* ------------------------------ bounds -------------------------------- *)

\* number of tasks (inbound callbacks, middleware dispatches) in flight at once
MaxTasks == 2
\* number of durable writes per thread after which no new task is started
MaxStoreWrites == 2
\* longest carousel and longest button list drawn for the translation
MaxCards == 2
MaxButtons == 2
\* longest quick-reply list drawn for the translation
MaxReplies == 2

Tasks == 1..MaxTasks

\* number of tasks in flight at once in the race of three (SpecRace)
MaxRaceTasks == 3
RaceTasks == 1..MaxRaceTasks
\* every task slot of the model
AllTasks == Tasks \cup RaceTasks

(* ------------------------------ values -------------------------------- *)

\* conversation thread ids and the conversation references the adapter issues
Threads == {"t1"}
Handles == {"h1", "h2"}
\* JavaScript's undefined, as a conversation reference
Undefined == "undefined"
Refs == Handles \cup {Undefined}

\* activity.text: absent, empty, or a text
Texts == {"undefined", "", "hello"}

Channels == {"teams", "web"}
\* clients: Clients holds a TeamsClient for BotIds \ {"bot2"}
BotIds == {"bot1", "bot2"}
clients == {"bot1"}

\* event.type: the four outgoingTypes, "default", and two other types
EventTypes == {"default", "text", "message", "typing", "carousel", "file", "quick_reply"}

\* errors: what the adapter's delivery and the key-value store can raise
DeliveryErrors == {"NetworkTimeout", "Forbidden"}
StoreErrors == {"StoreDown"}
NoError == [name |-> "none", detail |-> ""]
DeliveryError(e) == [name |-> e, detail |-> ""]
StoreError(e) == [name |-> e, detail |-> ""]

\* a promise: pending, resolved, or rejected with an error
Pending == [state |-> "pending", err |-> NoError]
Resolved == [state |-> "resolved", err |-> NoError]
Rejected(e) == [state |-> "rejected", err |-> e]

(* ------------------------- payload translation ------------------------ *)

\* the hole Array.map leaves for a callback that returns nothing
UndefinedAction == [undefined |-> TRUE]

\* Array.prototype.map is written [i \in 1..Len(s) |-> f(s[i])] throughout

\* as CarouselAction, a postback button displaying its payload as a
\* say_something button displays its text
CarouselActionPostbackDisplayed(button) ==
  IF button.type = "open_url"
    THEN [type |-> "openUrl", value |-> button.url, title |-> button.title]
  ELSE IF button.type = "say_something"
    THEN [type |-> "messageBack", title |-> button.title, value |-> button.text,
          text |-> button.text, displayText |-> button.text]
  ELSE IF button.type = "postback"
    THEN [type |-> "messageBack", title |-> button.title, value |-> button.payload,
          text |-> button.payload, displayText |-> button.payload]
  ELSE UndefinedAction

\* the button-kind switch of _prepareCarouselPayload
CarouselAction(button) ==
  IF button.type = "open_url"
    THEN [type |-> "openUrl", value |-> button.url, title |-> button.title]
  ELSE IF button.type = "say_something"
    THEN [type |-> "messageBack", title |-> button.title, value |-> button.text,
          text |-> button.text, displayText |-> button.text]
  ELSE IF button.type = "postback"
    THEN [type |-> "messageBack", title |-> button.title, value |-> button.payload,
          text |-> button.payload]
  ELSE UndefinedAction

\* CardFactory.heroCard(title, images, buttons)
heroCard(title, images, buttons) ==
  [contentType |-> "application/vnd.microsoft.card.hero",
   content |-> [title |-> title, images |-> images, buttons |-> buttons]]

\* CardFactory.images(urls)
images(urls) == [i \in 1..Len(urls) |-> [url |-> urls[i]]]

CarouselCard(card) ==
  heroCard(card.title, images(<<card.picture>>),
           [j \in 1..Len(card.buttons) |-> CarouselAction(card.buttons[j])])

\* as _prepareCarouselPayload, with the cards in reverse order
_prepareCarouselPayloadReversed(event) ==
  [type |-> "message",
   attachments |->
     [i \in 1..Len(event.payload.elements) |->
        CarouselCard(event.payload.elements[Len(event.payload.elements) + 1 - i])],
   attachmentLayout |-> "carousel"]

_prepareCarouselPayload(event) ==
  [type |-> "message",
   attachments |->
     [i \in 1..Len(event.payload.elements) |-> CarouselCard(event.payload.elements[i])],
   attachmentLayout |-> "carousel"]

\* as ChoiceAction, displaying the payload of the reply instead of its title
ChoiceActionDisplayPayload(reply) ==
  [title |-> reply.title, type |-> "messageBack", value |-> reply.payload,
   text |-> reply.payload, displayText |-> reply.payload]

\* the callback of quick_replies.map, lines 232-238
ChoiceAction(reply) ==
  [title |-> reply.title, type |-> "messageBack", value |-> reply.payload,
   text |-> reply.payload, displayText |-> reply.title]

_prepareChoicePayload(event) ==
  [text |-> event.payload.text,
   attachments |->
     <<heroCard("", images(<<>>),
                [i \in 1..Len(event.payload.quick_replies) |->
                   ChoiceAction(event.payload.quick_replies[i])])>>]

\* msg.type, undefined when the payload has no type field
PayloadType(msg) == IF "type" \in DOMAIN msg THEN msg.type ELSE "undefined"

\* msg.quick_replies && msg.quick_replies.length
HasQuickReplies(msg) ==
  IF "quick_replies" \in DOMAIN msg THEN Len(msg.quick_replies) > 0 ELSE FALSE

\* as PrepareMsg, the typing branch taken by the type of the event
PrepareMsgByEventType(event) ==
  LET msg == event.payload IN
  IF event.type = "typing" THEN [type |-> "typing"]
  ELSE IF PayloadType(msg) = "carousel" THEN _prepareCarouselPayload(event)
  ELSE IF HasQuickReplies(msg) THEN _prepareChoicePayload(event)
  ELSE msg

\* lines 198-207 of sendOutgoingEvent: the payload handed to the adapter
PrepareMsg(event) ==
  LET msg == event.payload IN
  IF PayloadType(msg) = "typing" THEN [type |-> "typing"]
  ELSE IF PayloadType(msg) = "carousel" THEN _prepareCarouselPayload(event)
  ELSE IF HasQuickReplies(msg) THEN _prepareChoicePayload(event)
  ELSE msg

(* ------------------------------ inputs -------------------------------- *)

\* sample payloads of outgoing events: text, typing, carousel, quick replies
TextPayload == [type |-> "text", text |-> "hi"]
TypingPayload == [type |-> "typing", value |-> TRUE]
SampleButton == [type |-> "open_url", title |-> "Open", url |-> "https://a"]
CarouselPayload ==
  [type |-> "carousel",
   elements |-> <<[title |-> "A", picture |-> "a.png", buttons |-> <<SampleButton>>]>>]
ChoicePayload ==
  [type |-> "text", text |-> "pick",
   quick_replies |-> <<[title |-> "Yes", payload |-> "yes"]>>]
Payloads == {TextPayload, TypingPayload, CarouselPayload, ChoicePayload}

\* sdk.IO.Event, outgoing
Events ==
  [channel : Channels, botId : BotIds, type : EventTypes, threadId : Threads,
   payload : Payloads]
\* the events dispatched while other tasks are in flight: every routing case,
\* an accepted type by the "default" mapping, one by its own name, a refused one
ConcurrentEvents ==
  {e \in Events : e.type \in {"default", "carousel", "file"} /\ e.payload = TextPayload}
\* buttons of each kind of the switch, and one of a kind it does not know
Buttons ==
  {[type |-> "open_url", title |-> "Open", url |-> "https://a"],
   [type |-> "say_something", title |-> "Say", text |-> "hello"],
   [type |-> "postback", title |-> "Post", payload |-> "P1"],
   [type |-> "call", title |-> "Call"]}

\* the sequences over S of length at most n
SeqUpTo(S, n) == UNION {[1..k -> S] : k \in 0..n}

Cards == [title : {"A"}, picture : {"a.png"}, buttons : SeqUpTo(Buttons, MaxButtons)]
Carousels == [type : {"carousel"}, elements : SeqUpTo(Cards, MaxCards)]

\* quick replies, and the text payloads that carry a list of them
Replies == {[title |-> "Yes", payload |-> "yes"], [title |-> "No", payload |-> "no"]}
Choices == [type : {"text"}, text : {"pick"}, quick_replies : SeqUpTo(Replies, MaxReplies)]

\* the events the translation is applied to
TranslateEvents ==
  [channel : {"teams"}, botId : {"bot1"}, type : {"carousel"}, threadId : Threads,
   payload : Carousels]
  \cup
  [channel : {"teams"}, botId : {"bot1"}, type : {"text"}, threadId : Threads,
   payload : Choices]

NoEvent ==
  [channel |-> "none", botId |-> "none", type |-> "none", threadId |-> "none",
   payload |-> [type |-> "none"]]

\* an inbound activity: its text, its conversation id and the conversation
\* reference TurnContext.getConversationReference extracts from it
Activities == [text : Texts, threadId : Threads, ref : Handles]
NoActivity == [text |-> "undefined", threadId |-> "none", ref |-> Undefined]

(* ------------------------------- state -------------------------------- *)

VARIABLES
  inMemoryConversationRefs, \* TeamsClient.inMemoryConversationRefs
  kvs,                      \* bp.kvs, the entries of this bot
  kvsWrites,                \* number of kvs.set performed, per thread
  emitted,                  \* events handed to bp.events.sendEvent
  pc,                       \* per task: the await it is suspended on
  act,                      \* per task: the inbound activity
  ev,                       \* per task: the outgoing event
  emittedAtStart,           \* history: per task, an inbound event of its thread was
                            \* emitted before the task started
  ref,                      \* per task: convRef / ref, the resolved reference
  io,                       \* per task: the promise of its kvs.get, kvs.set or sendActivity
  settled,                  \* per task: the promise of sendOutgoingEvent / of the callback
  reads,                    \* per task: number of kvs.get issued
  adapterCalls,             \* per task: calls of adapter.continueConversation
  log,                      \* per task: bp.logger entries
  nextCalls,                \* per task: calls of the middleware's next
  firstRecord,              \* history: per thread, the first _setConversationRef that resolved
  trEvent,                  \* translation under test: its input event
  trMsg                     \* translation under test: its output, once applied

cacheVars == <<inMemoryConversationRefs, kvs, kvsWrites>>
taskVars == <<pc, act, ev, emittedAtStart, ref, io, settled, reads, adapterCalls, log, nextCalls>>
trVars == <<trEvent, trMsg>>
vars == <<cacheVars, emitted, taskVars, firstRecord, trVars>>

NoMsg == [type |-> "none"]
\* firstRecord: no call yet; else the reference of the call and whether it
\* found the thread unknown and wrote
NoRecord == [ref |-> Undefined, wrote |-> FALSE]

\* a fresh TeamsClient; the store may hold references of an earlier process
InitClient ==
  /\ inMemoryConversationRefs = [th \in Threads |-> Undefined]
  /\ kvs \in [Threads -> Refs]
  /\ kvsWrites = [th \in Threads |-> 0]
  /\ emitted = {}
  /\ pc = [t \in AllTasks |-> "idle"]
  /\ act = [t \in AllTasks |-> NoActivity]
  /\ ev = [t \in AllTasks |-> NoEvent]
  /\ emittedAtStart = [t \in AllTasks |-> FALSE]
  /\ ref = [t \in AllTasks |-> Undefined]
  /\ io = [t \in AllTasks |-> Pending]
  /\ settled = [t \in AllTasks |-> Pending]
  /\ reads = [t \in AllTasks |-> 0]
  /\ adapterCalls = [t \in AllTasks |-> <<>>]
  /\ log = [t \in AllTasks |-> <<>>]
  /\ nextCalls = [t \in AllTasks |-> <<>>]
  /\ firstRecord = [th \in Threads |-> NoRecord]

Init ==
  /\ InitClient
  /\ trEvent = NoEvent
  /\ trMsg = NoMsg

(* --------------------------- pure helpers ----------------------------- *)

\* as Rethrown, the error swallowed: the caller goes on as after a return
RethrownAsReturn(promise) == Resolved

\* await of a rejected promise, outside any try: the caller's own promise is
\* rejected with the same error (lines 136, 150, 188)
Rethrown(promise) == Rejected(promise.err)

\* as Truthy, with a cached undefined counting as a reference
TruthyOfAny(r) == TRUE

\* truthiness of a conversation reference: if (convRef)
Truthy(r) == r # Undefined

\* as NoRef, never true: the reference is used unchecked
NoRefNever(r) == FALSE

\* sendOutgoingEvent, line 189: if (!ref)
NoRef(r) == r = Undefined

\* as HasText, testing for an absent text only
HasTextDefined(activity) == activity.text # "undefined"

\* !activity.text is false: the text is neither absent nor empty
HasText(activity) == activity.text \notin {"undefined", ""}

\* as outgoingTypes, with one type too many
outgoingTypesWithFile == {"message", "typing", "carousel", "text", "file"}

outgoingTypes == {"message", "typing", "carousel", "text"}

messageType(event) == IF event.type = "default" THEN "text" ELSE event.type

UnsupportedError(event) == [name |-> "Error: Unsupported event type", detail |-> event.type]

\* the event _sendIncomingEvent hands to the bus
IncomingEvent(activity) ==
  [channel |-> "teams", direction |-> "incoming", payload |-> [text |-> activity.text],
   preview |-> activity.text, threadId |-> activity.threadId]

\* one call of next(error?, continueDefault?)
NextCall(e, flag) == [err |-> e, continueDefault |-> flag]

\* as RoutedAway, without the test for a registered client
RoutedAwayByChannel(event) == event.channel # "teams"

\* outgoingHandler, lines 300-307: the event is not for this client
RoutedAway(event) == event.channel # "teams" \/ event.botId \notin clients

\* outgoingHandler, lines 309-315: the calls of next once sendOutgoingEvent settled
HandlerNextCalls(promise) ==
  IF promise.state = "rejected"
    THEN <<NextCall(promise.err, "undefined"), NextCall(NoError, "false")>>
    ELSE <<NextCall(NoError, "false")>>

\* as SendActivityFailed, without the throw: the error is logged and dropped
SendActivitySwallowed(err) == Resolved

\* lines 212-218: sendActivity threw err; it is logged, then thrown again
SendActivityFailed(err) == Rejected(err)

(* ------------------------- conversation cache ------------------------- *)

\* as GetHit, never true: every call reads the store
GetHitNever(threadId) == FALSE

\* _getConversationRef, lines 144-147: the in-memory reference is returned
GetHit(threadId) == Truthy(inMemoryConversationRefs[threadId])

\* as SetKnown, without the early return: every call writes
SetKnownNever(threadId) == FALSE

\* _setConversationRef, lines 156-158: the thread is known, nothing is written
SetKnown(threadId) == Truthy(inMemoryConversationRefs[threadId])

(* ------------------------------ actions ------------------------------- *)

Free(t) == pc[t] \in {"idle", "done"}

\* no new task once a thread has had MaxStoreWrites durable writes
WithinBounds == \A th \in Threads : kvsWrites[th] < MaxStoreWrites

\* a task slot taken by a new task: its locals as at the call
Begin(t, activity, event) ==
  /\ act' = [act EXCEPT ![t] = activity]
  /\ ev' = [ev EXCEPT ![t] = event]
  /\ emittedAtStart' =
       [emittedAtStart EXCEPT ![t] = \E x \in emitted : x.threadId = event.threadId]
  /\ io' = [io EXCEPT ![t] = Pending]
  /\ log' = [log EXCEPT ![t] = <<>>]
  /\ adapterCalls' = [adapterCalls EXCEPT ![t] = <<>>]

\* POST /api/messages, lines 126-136: the callback up to its await.
\* An activity without text is dropped; otherwise _setConversationRef runs up
\* to kvs.set (lines 155-161).
InboundStart(t, activity) ==
  /\ Free(t)
  /\ WithinBounds
  /\ Begin(t, activity, NoEvent)
  /\ ref' = [ref EXCEPT ![t] = Undefined]
  /\ reads' = [reads EXCEPT ![t] = 0]
  /\ nextCalls' = [nextCalls EXCEPT ![t] = <<>>]
  /\ IF ~HasText(activity)
       THEN /\ pc' = [pc EXCEPT ![t] = "done"]
            /\ settled' = [settled EXCEPT ![t] = Resolved]
            /\ UNCHANGED inMemoryConversationRefs
     ELSE IF SetKnown(activity.threadId)
       THEN /\ pc' = [pc EXCEPT ![t] = "set_settled"]
            /\ settled' = [settled EXCEPT ![t] = Pending]
            /\ UNCHANGED inMemoryConversationRefs
     ELSE /\ pc' = [pc EXCEPT ![t] = "kvs_set"]
          /\ settled' = [settled EXCEPT ![t] = Pending]
          /\ inMemoryConversationRefs' =
               [inMemoryConversationRefs EXCEPT ![activity.threadId] = activity.ref]
  /\ UNCHANGED <<kvs, kvsWrites, emitted, firstRecord, trVars>>

\* bp.kvs.set of line 161 takes effect in the store
KvsSetOk(t) ==
  /\ pc[t] = "kvs_set"
  /\ kvs' = [kvs EXCEPT ![act[t].threadId] = act[t].ref]
  /\ kvsWrites' = [kvsWrites EXCEPT ![act[t].threadId] = @ + 1]
  /\ io' = [io EXCEPT ![t] = Resolved]
  /\ pc' = [pc EXCEPT ![t] = "set_settled"]
  /\ UNCHANGED <<inMemoryConversationRefs, emitted, act, ev, emittedAtStart, ref, settled, reads,
                 adapterCalls, log, nextCalls, firstRecord, trVars>>

\* bp.kvs.set of line 161 fails
KvsSetFail(t, e) ==
  /\ pc[t] = "kvs_set"
  /\ io' = [io EXCEPT ![t] = Rejected(StoreError(e))]
  /\ pc' = [pc EXCEPT ![t] = "set_settled"]
  /\ UNCHANGED <<cacheVars, emitted, act, ev, emittedAtStart, ref, settled, reads, adapterCalls, log,
                 nextCalls, firstRecord, trVars>>

\* lines 136-138: the callback resumes after await _setConversationRef; a
\* rejection leaves the callback, otherwise _sendIncomingEvent emits the event
InboundResume(t) ==
  /\ pc[t] = "set_settled"
  /\ IF io[t].state = "rejected"
       THEN /\ settled' = [settled EXCEPT ![t] = Rethrown(io[t])]
            /\ UNCHANGED emitted
       ELSE /\ settled' = [settled EXCEPT ![t] = Resolved]
            /\ emitted' = emitted \cup {IncomingEvent(act[t])}
  /\ firstRecord' =
       IF io[t].state # "rejected" /\ firstRecord[act[t].threadId] = NoRecord
         THEN [firstRecord EXCEPT ![act[t].threadId] =
                 [ref |-> act[t].ref, wrote |-> io[t].state = "resolved"]]
         ELSE firstRecord
  /\ pc' = [pc EXCEPT ![t] = "done"]
  /\ UNCHANGED <<cacheVars, act, ev, emittedAtStart, ref, io, reads, adapterCalls, log, nextCalls, trVars>>

\* outgoingHandler, lines 299-310, with sendOutgoingEvent up to its first
\* await (lines 181-188) and _getConversationRef up to kvs.get (lines 143-150)
HandlerStart(t, event) ==
  /\ Free(t)
  /\ WithinBounds
  /\ Begin(t, NoActivity, event)
  /\ IF RoutedAway(event)
       THEN /\ nextCalls' = [nextCalls EXCEPT ![t] = <<NextCall(NoError, "undefined")>>]
            /\ pc' = [pc EXCEPT ![t] = "done"]
            /\ settled' = [settled EXCEPT ![t] = Pending]
            /\ reads' = [reads EXCEPT ![t] = 0]
            /\ ref' = [ref EXCEPT ![t] = Undefined]
     ELSE /\ nextCalls' = [nextCalls EXCEPT ![t] = <<>>]
          /\ IF messageType(event) \notin outgoingTypes
               THEN /\ settled' = [settled EXCEPT ![t] = Rejected(UnsupportedError(event))]
                    /\ pc' = [pc EXCEPT ![t] = "send_settled"]
                    /\ reads' = [reads EXCEPT ![t] = 0]
                    /\ ref' = [ref EXCEPT ![t] = Undefined]
             ELSE IF GetHit(event.threadId)
               THEN /\ settled' = [settled EXCEPT ![t] = Pending]
                    /\ pc' = [pc EXCEPT ![t] = "ref_settled"]
                    /\ reads' = [reads EXCEPT ![t] = 0]
                    /\ ref' = [ref EXCEPT ![t] = inMemoryConversationRefs[event.threadId]]
             ELSE /\ settled' = [settled EXCEPT ![t] = Pending]
                  /\ pc' = [pc EXCEPT ![t] = "kvs_get"]
                  /\ reads' = [reads EXCEPT ![t] = 1]
                  /\ ref' = [ref EXCEPT ![t] = Undefined]
  /\ UNCHANGED <<cacheVars, emitted, firstRecord, trVars>>

\* bp.kvs.get of line 150 is answered by the store
KvsGetOk(t) ==
  /\ pc[t] = "kvs_get"
  /\ ref' = [ref EXCEPT ![t] = kvs[ev[t].threadId]]
  /\ io' = [io EXCEPT ![t] = Resolved]
  /\ pc' = [pc EXCEPT ![t] = "get_settled"]
  /\ UNCHANGED <<cacheVars, emitted, act, ev, emittedAtStart, settled, reads, adapterCalls, log,
                 nextCalls, firstRecord, trVars>>

\* bp.kvs.get of line 150 fails
KvsGetFail(t, e) ==
  /\ pc[t] = "kvs_get"
  /\ io' = [io EXCEPT ![t] = Rejected(StoreError(e))]
  /\ pc' = [pc EXCEPT ![t] = "get_settled"]
  /\ UNCHANGED <<cacheVars, emitted, act, ev, emittedAtStart, ref, settled, reads, adapterCalls, log,
                 nextCalls, firstRecord, trVars>>

\* sendOutgoingEvent from line 189 on, with the reference r: without a
\* reference a warning and a plain return, else the payload is prepared and
\* adapter.continueConversation is called
SendWithRef(t, r) ==
  IF NoRef(r)
    THEN /\ log' = [log EXCEPT ![t] = Append(@, "warn: no conversation reference")]
         /\ settled' = [settled EXCEPT ![t] = Resolved]
         /\ pc' = [pc EXCEPT ![t] = "send_settled"]
         /\ UNCHANGED adapterCalls
    ELSE /\ adapterCalls' =
              [adapterCalls EXCEPT ![t] = Append(@, [ref |-> r, msg |-> PrepareMsg(ev[t])])]
         /\ pc' = [pc EXCEPT ![t] = "adapter"]
         /\ UNCHANGED <<log, settled>>

\* _getConversationRef resumes after await kvs.get (lines 150-152) and
\* sendOutgoingEvent goes on with what it returned; a store error rejects both
GetResume(t) ==
  /\ pc[t] = "get_settled"
  /\ IF io[t].state = "rejected"
       THEN /\ settled' = [settled EXCEPT ![t] = Rethrown(io[t])]
            /\ pc' = [pc EXCEPT ![t] = "send_settled"]
            /\ UNCHANGED <<inMemoryConversationRefs, adapterCalls, log>>
       ELSE /\ inMemoryConversationRefs' =
                 [inMemoryConversationRefs EXCEPT ![ev[t].threadId] = ref[t]]
            /\ SendWithRef(t, ref[t])
  /\ UNCHANGED <<kvs, kvsWrites, emitted, act, ev, emittedAtStart, ref, io, reads, nextCalls, firstRecord, trVars>>

\* sendOutgoingEvent resumes after await _getConversationRef that hit the
\* in-memory mapping (line 188)
SendResume(t) ==
  /\ pc[t] = "ref_settled"
  /\ SendWithRef(t, ref[t])
  /\ UNCHANGED <<cacheVars, emitted, act, ev, emittedAtStart, ref, io, reads, nextCalls, firstRecord, trVars>>

\* turnContext.sendActivity of line 211 delivers the payload
AdapterOk(t) ==
  /\ pc[t] = "adapter"
  /\ io' = [io EXCEPT ![t] = Resolved]
  /\ settled' = [settled EXCEPT ![t] = Resolved]
  /\ pc' = [pc EXCEPT ![t] = "send_settled"]
  /\ UNCHANGED <<cacheVars, emitted, act, ev, emittedAtStart, ref, reads, adapterCalls, log,
                 nextCalls, firstRecord, trVars>>

\* turnContext.sendActivity of line 211 throws e (lines 212-218)
AdapterFail(t, e) ==
  /\ pc[t] = "adapter"
  /\ io' = [io EXCEPT ![t] = Rejected(DeliveryError(e))]
  /\ log' = [log EXCEPT ![t] = Append(@, "error: sending a payload")]
  /\ settled' = [settled EXCEPT ![t] = SendActivityFailed(DeliveryError(e))]
  /\ pc' = [pc EXCEPT ![t] = "send_settled"]
  /\ UNCHANGED <<cacheVars, emitted, act, ev, emittedAtStart, ref, reads, adapterCalls, nextCalls,
                 firstRecord, trVars>>

\* outgoingHandler resumes after await client.sendOutgoingEvent (lines 309-315)
HandlerResume(t) ==
  /\ pc[t] = "send_settled"
  /\ nextCalls' = [nextCalls EXCEPT ![t] = HandlerNextCalls(settled[t])]
  /\ pc' = [pc EXCEPT ![t] = "done"]
  /\ UNCHANGED <<cacheVars, emitted, act, ev, emittedAtStart, ref, io, settled, reads, adapterCalls, log,
                 firstRecord, trVars>>

Next ==
  \/ \E t \in Tasks, activity \in Activities : InboundStart(t, activity)
  \/ \E t \in Tasks : KvsSetOk(t)
  \/ \E t \in Tasks, e \in StoreErrors : KvsSetFail(t, e)
  \/ \E t \in Tasks : InboundResume(t)
  \/ \E t \in Tasks, event \in ConcurrentEvents : HandlerStart(t, event)
  \/ \E t \in Tasks : KvsGetOk(t)
  \/ \E t \in Tasks, e \in StoreErrors : KvsGetFail(t, e)
  \/ \E t \in Tasks : GetResume(t)
  \/ \E t \in Tasks : SendResume(t)
  \/ \E t \in Tasks : AdapterOk(t)
  \/ \E t \in Tasks, e \in DeliveryErrors : AdapterFail(t, e)
  \/ \E t \in Tasks : HandlerResume(t)

Spec == Init /\ [][Next]_vars

\* lines 198-207 alone, applied to one event
Translate ==
  /\ trMsg = NoMsg
  /\ trMsg' = PrepareMsg(trEvent)
  /\ UNCHANGED <<cacheVars, emitted, taskVars, firstRecord, trEvent>>

InitTranslate ==
  /\ InitClient
  /\ kvs = [th \in Threads |-> Undefined]
  /\ trEvent \in TranslateEvents
  /\ trMsg = NoMsg

NextTranslate == Translate

SpecTranslate == InitTranslate /\ [][NextTranslate]_vars

\* one operation at a time, run to completion: a task starts only when no
\* task is in flight, and takes the slot of the task before it
Alone(t) == \A u \in Tasks \ {t} : pc[u] = "idle"

NextSeq ==
  \/ \E t \in Tasks, activity \in Activities : Alone(t) /\ InboundStart(t, activity)
  \/ \E t \in Tasks : KvsSetOk(t)
  \/ \E t \in Tasks, e \in StoreErrors : KvsSetFail(t, e)
  \/ \E t \in Tasks : InboundResume(t)
  \/ \E t \in Tasks, event \in Events : Alone(t) /\ HandlerStart(t, event)
  \/ \E t \in Tasks : KvsGetOk(t)
  \/ \E t \in Tasks, e \in StoreErrors : KvsGetFail(t, e)
  \/ \E t \in Tasks : GetResume(t)
  \/ \E t \in Tasks : SendResume(t)
  \/ \E t \in Tasks : AdapterOk(t)
  \/ \E t \in Tasks, e \in DeliveryErrors : AdapterFail(t, e)
  \/ \E t \in Tasks : HandlerResume(t)

SpecSeq == Init /\ [][NextSeq]_vars

\* the race of three: up to MaxRaceTasks tasks interleaved at their awaits,
\* a store that answers every kvs.get and kvs.set, one text event and the
\* activities of one conversation reference
RaceActivities == {a \in Activities : a.text = "hello" /\ a.ref = "h1"}
RaceEvents ==
  {e \in ConcurrentEvents : e.channel = "teams" /\ e.botId = "bot1" /\ e.type = "default"}

NextRace ==
  \/ \E t \in RaceTasks, activity \in RaceActivities : InboundStart(t, activity)
  \/ \E t \in RaceTasks : KvsSetOk(t)
  \/ \E t \in RaceTasks : InboundResume(t)
  \/ \E t \in RaceTasks, event \in RaceEvents : HandlerStart(t, event)
  \/ \E t \in RaceTasks : KvsGetOk(t)
  \/ \E t \in RaceTasks : GetResume(t)
  \/ \E t \in RaceTasks : SendResume(t)
  \/ \E t \in RaceTasks : AdapterOk(t)
  \/ \E t \in RaceTasks, e \in DeliveryErrors : AdapterFail(t, e)
  \/ \E t \in RaceTasks : HandlerResume(t)

SpecRace == Init /\ [][NextRace]_vars

(* ------------------------- shorthands of the claims ------------------- *)

\* task t is a dispatch of the middleware handler / an inbound callback
IsDispatch(t) == ev[t] # NoEvent
IsInbound(t) == act[t] # NoActivity

\* the handler of task t has returned
Returned(t) == IsDispatch(t) /\ pc[t] = "done"

\* the event of task t reached client.sendOutgoingEvent
Sent(t) == IsDispatch(t) /\ ev[t].channel = "teams" /\ ev[t].botId = "bot1"

\* the adapter was called for task t and its sendActivity went through
Delivered(t) == Len(adapterCalls[t]) > 0 /\ io[t].state = "resolved"

(* ------------------------------- C1 ----------------------------------- *)

\* C1: every dispatch of the handler that has returned has called next
\* exactly once, whatever became of the event.
C1_NextExactlyOnce == \A t \in Tasks : Returned(t) => Len(nextCalls[t]) = 1

(* ------------------------------- C2 ----------------------------------- *)

\* C2: next is called with continueDefault = false only for an event that
\* the adapter delivered: never after a failed sendOutgoingEvent, never when
\* the conversation reference was missing.
C2_SwallowsOnlyDelivered ==
  \A t \in Tasks :
    \A i \in 1..Len(nextCalls[t]) :
      nextCalls[t][i].continueDefault = "false" => Delivered(t)

(* ------------------------------- C3 ----------------------------------- *)

\* _getConversationRef of task t has returned; what it returned is ref[t]
ResolveReturned(t) ==
  /\ Sent(t)
  /\ \/ pc[t] \in {"ref_settled", "adapter"}
     \/ Len(adapterCalls[t]) > 0
     \/ Len(log[t]) > 0

\* the reference h is what the cache holds for th: both tiers hold it and
\* every resolve that has returned since returned it
Holds(th, h) ==
  /\ inMemoryConversationRefs[th] = h
  /\ kvs[th] = h
  /\ \A t \in Tasks : ResolveReturned(t) /\ ev[t].threadId = th => ref[t] = h

\* C3 as stated: with operations run one at a time, once a record(id, h1) has
\* completed, the cache holds h1 for id from then on, whatever is recorded later.
C3_FirstRecordWins ==
  \A th \in Threads :
    firstRecord[th] # NoRecord => Holds(th, firstRecord[th].ref)

\* C3, amended: with operations run one at a time, once a record(id, h1) that
\* found no reference for id in the in-memory mapping has completed without a
\* store error, every later record(id, h2) is a no-op: the cache holds h1 for
\* id from then on, in memory and in the store, and every later resolve
\* returns h1.
C3_FirstWriteWins ==
  \A th \in Threads :
    firstRecord[th].wrote => Holds(th, firstRecord[th].ref)

\* a later record(id, h2), h2 other than h1, has completed
C3_Witness ==
  \E th \in Threads, t \in Tasks :
    /\ firstRecord[th].wrote
    /\ IsInbound(t)
    /\ pc[t] = "done"
    /\ settled[t] = Resolved
    /\ HasText(act[t])
    /\ act[t].threadId = th
    /\ act[t].ref # firstRecord[th].ref

(* ------------------------------- C4 ----------------------------------- *)

\* the message kind of an event, and the kinds sendOutgoingEvent supports
KindOf(event) == IF event.type = "default" THEN "text" ELSE event.type
SupportedKinds == {"message", "typing", "carousel", "text"}

\* C4: an event of an unsupported kind that reaches sendOutgoingEvent is
\* rejected with the unsupported-type error naming its type, without a store
\* read and without a call of the adapter, in every state of the cache.
C4_UnsupportedRejected ==
  \A t \in Tasks :
    Sent(t) /\ KindOf(ev[t]) \notin SupportedKinds =>
      /\ pc[t] \in {"send_settled", "done"}
      /\ settled[t].state = "rejected"
      /\ settled[t].err = [name |-> "Error: Unsupported event type", detail |-> ev[t].type]
      /\ adapterCalls[t] = <<>>
      /\ reads[t] = 0

\* an event of an unsupported kind was refused while neither tier holds a
\* reference for its thread
C4_Witness ==
  \E t \in Tasks :
    /\ Sent(t)
    /\ KindOf(ev[t]) \notin SupportedKinds
    /\ pc[t] = "done"
    /\ inMemoryConversationRefs[ev[t].threadId] = Undefined
    /\ kvs[ev[t].threadId] = Undefined

(* ------------------------------- C5 ----------------------------------- *)

\* C5: the callback of an inbound activity whose text is absent or empty
\* returns at once, emits no event and leaves the in-memory mapping and the
\* store as they were.
C5_NoTextNoEffect ==
  [][\A t \in Tasks :
       LET a == act'[t] IN
       a \in Activities /\ a.text \in {"undefined", ""} /\ InboundStart(t, a) =>
         /\ pc'[t] = "done"
         /\ emitted' = emitted
         /\ inMemoryConversationRefs' = inMemoryConversationRefs
         /\ kvs' = kvs
         /\ kvsWrites' = kvsWrites]_vars

\* an activity with an empty text was handled for a thread not yet known
C5_Witness ==
  \E t \in Tasks :
    /\ IsInbound(t)
    /\ act[t].text = ""
    /\ pc[t] = "done"
    /\ inMemoryConversationRefs[act[t].threadId] = Undefined

(* ------------------------------- C6 ----------------------------------- *)

WarnNoReference == <<"warn: no conversation reference">>

\* C6: with operations run one at a time, sendOutgoingEvent of a supported
\* kind for a thread that has a reference neither in memory nor in the store
\* (the store read answering so) never calls the adapter and never rejects: it
\* resolves, and all it leaves is the warning in the log.
C6_MissingReferenceWarns ==
  \A t \in Tasks :
    /\ Sent(t)
    /\ KindOf(ev[t]) \in SupportedKinds
    /\ inMemoryConversationRefs[ev[t].threadId] = Undefined
    /\ kvs[ev[t].threadId] = Undefined
    /\ io[t].state # "rejected"
    => /\ adapterCalls[t] = <<>>
       /\ settled[t].state # "rejected"
       /\ pc[t] # "adapter"
       /\ pc[t] \in {"send_settled", "done"} =>
            settled[t] = Resolved /\ log[t] = WarnNoReference

\* a send for a thread without any reference has returned
C6_Witness ==
  \E t \in Tasks :
    /\ Sent(t)
    /\ KindOf(ev[t]) \in SupportedKinds
    /\ inMemoryConversationRefs[ev[t].threadId] = Undefined
    /\ kvs[ev[t].threadId] = Undefined
    /\ reads[t] = 1
    /\ io[t].state = "resolved"
    /\ pc[t] = "done"

(* ------------------------------- C7 ----------------------------------- *)

\* C7: when the adapter's delivery for a task raised an error, what
\* sendOutgoingEvent rejects with is that very error, the error was logged,
\* and the adapter was called that one time only.
C7_DeliveryErrorPropagates ==
  \A t \in Tasks :
    Len(adapterCalls[t]) > 0 /\ io[t].state = "rejected" =>
      /\ pc[t] \in {"send_settled", "done"}
      /\ settled[t].state = "rejected"
      /\ settled[t].err = io[t].err
      /\ log[t] = <<"error: sending a payload">>
      /\ Len(adapterCalls[t]) = 1

\* a delivery failed with NetworkTimeout and the handler has returned
C7_Witness ==
  \E t \in Tasks :
    /\ Len(adapterCalls[t]) > 0
    /\ io[t] = Rejected([name |-> "NetworkTimeout", detail |-> ""])
    /\ pc[t] = "done"

(* ------------------------------- C8 ----------------------------------- *)

\* event e reaches _getConversationRef: it is routed to the client and of a
\* supported kind
Resolves(e) ==
  e.channel = "teams" /\ e.botId = "bot1" /\ KindOf(e) \in SupportedKinds

\* C8: with operations run one at a time, a resolve that finds no reference in
\* memory issues one store read and, the store holding h, returns h and leaves
\* h in memory; a resolve that finds h in memory returns h without a store
\* read; a reference in memory stays, and no task reads the store again later.
C8_StoreReadOnce ==
  [][/\ \A t \in Tasks :
          LET e == ev'[t] IN
          e \in Events /\ Resolves(e) /\ HandlerStart(t, e) =>
            IF inMemoryConversationRefs[e.threadId] \in Handles
              THEN /\ reads'[t] = 0
                   /\ pc'[t] = "ref_settled"
                   /\ ref'[t] = inMemoryConversationRefs[e.threadId]
              ELSE /\ reads'[t] = 1
                   /\ pc'[t] = "kvs_get"
     /\ \A t \in Tasks :
          GetResume(t) /\ io[t].state = "resolved" /\ kvs[ev[t].threadId] \in Handles =>
            /\ ref[t] = kvs[ev[t].threadId]
            /\ inMemoryConversationRefs'[ev[t].threadId] = kvs[ev[t].threadId]
            /\ adapterCalls'[t] = <<[ref |-> kvs[ev[t].threadId], msg |-> PrepareMsg(ev[t])]>>
     /\ \A t \in Tasks : SendResume(t) => adapterCalls'[t][1].ref = ref[t]
     /\ \A t \in Tasks : pc[t] \notin {"idle", "done"} => reads'[t] = reads[t]
     /\ \A th \in Threads :
          inMemoryConversationRefs[th] \in Handles =>
            inMemoryConversationRefs'[th] = inMemoryConversationRefs[th]]_vars

\* the first resolve of a thread held by the store alone has read the store
\* once, has returned the stored reference and has left it in memory
C8_Witness ==
  \E t \in Tasks :
    /\ Sent(t)
    /\ pc[t] = "done"
    /\ reads[t] = 1
    /\ Len(adapterCalls[t]) = 1
    /\ adapterCalls[t][1].ref = kvs[ev[t].threadId]
    /\ inMemoryConversationRefs[ev[t].threadId] = kvs[ev[t].threadId]
    /\ kvsWrites[ev[t].threadId] = 0

(* ------------------------------- C9 ----------------------------------- *)

\* C9: for an event of another channel, or of a bot without a registered
\* client, the handler calls next() once, with no error and no flag, and
\* returns: sendOutgoingEvent is not called (no promise, no store read, no
\* adapter call) and the event, the in-memory mapping and the store stay as
\* they were.
C9_RoutedAwayUntouched ==
  [][\A t \in Tasks :
       LET e == ev'[t] IN
       e \in Events /\ (e.channel # "teams" \/ e.botId # "bot1") /\ HandlerStart(t, e) =>
         /\ nextCalls'[t] = <<[err |-> NoError, continueDefault |-> "undefined"]>>
         /\ pc'[t] = "done"
         /\ settled'[t] = Pending
         /\ reads'[t] = 0
         /\ adapterCalls'[t] = <<>>
         /\ inMemoryConversationRefs' = inMemoryConversationRefs
         /\ kvs' = kvs
         /\ kvsWrites' = kvsWrites]_vars

\* an event of a bot without a client was passed on while the other task is
\* in the middle of a store operation
C9_Witness ==
  \E t, u \in Tasks :
    /\ IsDispatch(t)
    /\ ev[t].channel = "teams"
    /\ ev[t].botId = "bot2"
    /\ pc[t] = "done"
    /\ Len(nextCalls[t]) = 1
    /\ pc[u] \in {"kvs_get", "kvs_set"}

(* ------------------------------- C10 ---------------------------------- *)

\* the action at position j is the one made of button b
ActionOf(a, b) ==
  IF b.type = "open_url"
    THEN a = [type |-> "openUrl", value |-> b.url, title |-> b.title]
  ELSE IF b.type \in {"say_something", "postback"}
    THEN a # UndefinedAction /\ a.type = "messageBack" /\ a.title = b.title
  ELSE TRUE

\* C10: the translation of a carousel has one attachment per card, in the
\* order of the cards, and the action list of attachment i has one entry per
\* button of card i, in the order of the buttons; the entry of an open_url
\* button is an openUrl action with the url and the title of the button.
C10_CarouselInOrder ==
  trMsg # NoMsg /\ PayloadType(trEvent.payload) = "carousel" =>
    LET cards == trEvent.payload.elements
        atts == trMsg.attachments
    IN /\ Len(atts) = Len(cards)
       /\ \A i \in 1..Len(cards) :
            /\ atts[i].content.title = cards[i].title
            /\ Len(atts[i].content.buttons) = Len(cards[i].buttons)
            /\ \A j \in 1..Len(cards[i].buttons) :
                 ActionOf(atts[i].content.buttons[j], cards[i].buttons[j])

\* two cards, each with one open_url button, have been translated
C10_Witness ==
  /\ trMsg # NoMsg
  /\ PayloadType(trEvent.payload) = "carousel"
  /\ Len(trEvent.payload.elements) = 2
  /\ \A i \in 1..2 :
       /\ Len(trEvent.payload.elements[i].buttons) = 1
       /\ trEvent.payload.elements[i].buttons[1].type = "open_url"
  /\ Len(trMsg.attachments) = 2

(* ------------------------------- C11 ---------------------------------- *)

\* C11: the translation of a message with a non-empty list of n quick replies
\* is the text of the message and exactly one card, with an empty title, no
\* image and n actions in the order of the replies; action i has the title
\* of reply i as title and as displayText and its payload as value and text.
C11_QuickRepliesOneCard ==
  trMsg # NoMsg /\ PayloadType(trEvent.payload) \notin {"typing", "carousel"}
    /\ HasQuickReplies(trEvent.payload) =>
    LET replies == trEvent.payload.quick_replies
        atts == trMsg.attachments
    IN /\ trMsg.text = trEvent.payload.text
       /\ Len(atts) = 1
       /\ atts[1].content.title = ""
       /\ atts[1].content.images = <<>>
       /\ Len(atts[1].content.buttons) = Len(replies)
       /\ \A i \in 1..Len(replies) :
            LET a == atts[1].content.buttons[i] IN
            /\ a.title = replies[i].title
            /\ a.value = replies[i].payload
            /\ a.text = replies[i].payload
            /\ a.displayText = replies[i].title

\* a list of two different replies has been translated
C11_Witness ==
  /\ trMsg # NoMsg
  /\ HasQuickReplies(trEvent.payload)
  /\ Len(trEvent.payload.quick_replies) = 2
  /\ trEvent.payload.quick_replies[1] # trEvent.payload.quick_replies[2]
  /\ Len(trMsg.attachments[1].content.buttons) = 2

(* ------------------------------- C12 ---------------------------------- *)

\* C12: a handle is never evicted from the in-process mapping: once the
\* mapping holds a handle for a thread, every later state holds that same
\* handle for it, whatever the interleaving of callbacks and dispatches.
C12_NeverEvicted ==
  [][\A th \in Threads :
       inMemoryConversationRefs[th] \in Handles =>
         inMemoryConversationRefs'[th] = inMemoryConversationRefs[th]]_vars

(* ------------------------------- C13 ---------------------------------- *)

\* a kvs.get or kvs.set of some task is issued and its caller has not resumed
StoreOperationInFlight ==
  \E t \in AllTasks : pc[t] \in {"kvs_get", "get_settled", "kvs_set", "set_settled"}

\* C13: in every state where no store operation is in flight, of a store
\* that has answered every operation, a handle held by the in-process
\* mapping for a thread is the handle the store holds for it, whatever the
\* interleaving and whatever the store held when the process started.
C13_MappingAgreesWithStore ==
  ~StoreOperationInFlight =>
    \A th \in Threads :
      inMemoryConversationRefs[th] \in Handles => kvs[th] = inMemoryConversationRefs[th]

(* ------------------------------- C14 ---------------------------------- *)

\* C14: in the lifetime of the process the store is written at most once
\* per thread; it is read only by a resolve that misses the in-process
\* mapping; and only an inbound callback writes it, never sendOutgoingEvent.
C14_WrittenOnceReadOnMiss ==
  [][/\ \A th \in Threads : kvsWrites'[th] <= 1
     /\ \A t \in Tasks :
          reads'[t] > 0 /\ pc[t] # "kvs_get" /\ pc'[t] = "kvs_get" =>
            ~Truthy(inMemoryConversationRefs[ev'[t].threadId])
     /\ kvs' # kvs => \E t \in Tasks : act[t] # NoActivity /\ pc[t] = "kvs_set"]_vars

(* ------------------------------- C15 ---------------------------------- *)

\* C15: with operations run one at a time, a resolve that finds no handle
\* in the mapping and none in the store returns absent (the send warns and
\* does not call the adapter) and leaves no handle in the mapping; whenever
\* the mapping holds no handle for a thread, as after such a resolve, a
\* record of h writes h to the mapping and to the store, and a resolve reads
\* the store again.
C15_AbsentNotCached ==
  [][/\ \A t \in Tasks :
          GetResume(t) /\ io[t].state = "resolved" /\ kvs[ev[t].threadId] \notin Handles =>
            /\ ref[t] \notin Handles
            /\ log'[t] = WarnNoReference
            /\ adapterCalls'[t] = <<>>
            /\ inMemoryConversationRefs'[ev[t].threadId] \notin Handles
     /\ \A t \in Tasks :
          LET a == act'[t] IN
          /\ a \in Activities
          /\ a.text \notin {"undefined", ""}
          /\ inMemoryConversationRefs[a.threadId] \notin Handles
          /\ InboundStart(t, a)
          => /\ inMemoryConversationRefs'[a.threadId] = a.ref
             /\ pc'[t] = "kvs_set"
     /\ \A t \in Tasks :
          KvsSetOk(t) => kvs'[act[t].threadId] = act[t].ref
                          /\ inMemoryConversationRefs'[act[t].threadId] = act[t].ref
     /\ \A t \in Tasks :
          LET e == ev'[t] IN
          /\ e \in Events
          /\ Resolves(e)
          /\ inMemoryConversationRefs[e.threadId] \notin Handles
          /\ HandlerStart(t, e)
          => reads'[t] = 1 /\ pc'[t] = "kvs_get"]_vars

\* a send has resolved absent after reading the store, and has returned
\* leaving no handle in the mapping
C15_Witness ==
  \E t \in Tasks :
    /\ Sent(t)
    /\ pc[t] = "done"
    /\ reads[t] = 1
    /\ io[t].state = "resolved"
    /\ log[t] = WarnNoReference
    /\ inMemoryConversationRefs[ev[t].threadId] \notin Handles
    /\ kvs[ev[t].threadId] \notin Handles

(* ------------------------------- C16 ---------------------------------- *)

\* the store operation of task t was answered with an error
StoreFailed(t) == io[t].state = "rejected" /\ io[t].err.name \in StoreErrors

\* C16: a store failure is propagated uncaught and is not retried. When the
\* store read of a send fails, sendOutgoingEvent rejects with that error, the
\* adapter is not invoked and the store is not read again; when the store
\* write of an inbound callback fails, the callback rejects with that error,
\* emits no InboundEvent and does not write again.
C16_StoreFailurePropagates ==
  [][/\ \A t \in Tasks :
          GetResume(t) /\ StoreFailed(t) =>
            /\ settled'[t] = Rejected(io[t].err)
            /\ pc'[t] = "send_settled"
     /\ \A t \in Tasks :
          InboundResume(t) /\ StoreFailed(t) =>
            /\ settled'[t] = Rejected(io[t].err)
            /\ pc'[t] = "done"
            /\ emitted' = emitted
     /\ \A t \in Tasks :
          StoreFailed(t) /\ pc[t] \in {"send_settled", "done"} =>
            /\ settled[t] = Rejected(io[t].err)
            /\ adapterCalls[t] = <<>>
            /\ IsDispatch(t) => reads[t] = 1
            /\ pc[t] = "send_settled" => pc'[t] \in {"send_settled", "done"}]_vars

\* a send whose store read failed has been settled, and so has an inbound
\* callback whose store write failed
C16_Witness ==
  \E t, u \in Tasks :
    /\ Sent(t) /\ StoreFailed(t) /\ pc[t] = "done" /\ reads[t] = 1
    /\ IsInbound(u) /\ StoreFailed(u) /\ pc[u] = "done"

(* ------------------------------- C17 ---------------------------------- *)

\* the shapes the translation paths give to a message
IsTypingMessage(msg) == msg = [type |-> "typing"]
IsCarouselMessage(msg) ==
  /\ DOMAIN msg = {"type", "attachments", "attachmentLayout"}
  /\ msg.type = "message"
  /\ msg.attachmentLayout = "carousel"
IsChoiceMessage(msg) == DOMAIN msg = {"text", "attachments"} /\ Len(msg.attachments) = 1

\* C17 as stated: the kind that sendOutgoingEvent validates determines the
\* translation path of every event handed to the adapter: kind typing gives
\* the typing signal, kind carousel the carousel translation, kind text the
\* raw payload, and no event takes the path of another kind.
C17_KindDeterminesPath ==
  \A t \in Tasks :
    Len(adapterCalls[t]) > 0 =>
      LET kind == KindOf(ev[t])
          msg == adapterCalls[t][1].msg
      IN /\ IsTypingMessage(msg) <=> kind = "typing"
         /\ IsCarouselMessage(msg) <=> kind = "carousel"
         /\ kind = "text" => msg = ev[t].payload

\* C17, amended: the type of the payload and its quick_replies list, not
\* the validated kind of the event, determine the translation path of every
\* event handed to the adapter: payload type typing gives the typing signal,
\* payload type carousel the carousel translation with one attachment per
\* element, any other payload with a non-empty quick_replies list the
\* quick-reply card with its text, and any other payload is sent raw.
C17_PayloadTypeDeterminesPath ==
  \A t \in Tasks :
    Len(adapterCalls[t]) > 0 =>
      LET payload == ev[t].payload
          msg == adapterCalls[t][1].msg
      IN IF PayloadType(payload) = "typing" THEN IsTypingMessage(msg)
         ELSE IF PayloadType(payload) = "carousel"
           THEN IsCarouselMessage(msg) /\ Len(msg.attachments) = Len(payload.elements)
         ELSE IF "quick_replies" \in DOMAIN payload /\ payload.quick_replies # <<>>
           THEN IsChoiceMessage(msg) /\ msg.text = payload.text
         ELSE msg = payload

\* an event accepted as kind typing whose payload is a carousel has been
\* handed to the adapter as a carousel
C17_Witness ==
  \E t \in Tasks :
    /\ Len(adapterCalls[t]) > 0
    /\ KindOf(ev[t]) = "typing"
    /\ PayloadType(ev[t].payload) = "carousel"
    /\ IsCarouselMessage(adapterCalls[t][1].msg)

(* ------------------------------- C18 ---------------------------------- *)

\* the entry a of an action list is the one the claim gives for button b
SwitchedTo(a, b) ==
  IF b.type = "open_url"
    THEN /\ DOMAIN a = {"type", "title", "value"}
         /\ a.type = "openUrl" /\ a.title = b.title /\ a.value = b.url
  ELSE IF b.type = "say_something"
    THEN /\ DOMAIN a = {"type", "title", "value", "text", "displayText"}
         /\ a.type = "messageBack" /\ a.title = b.title
         /\ a.value = b.text /\ a.text = b.text /\ a.displayText = b.text
  ELSE IF b.type = "postback"
    THEN /\ DOMAIN a = {"type", "title", "value", "text"}
         /\ a.type = "messageBack" /\ a.title = b.title
         /\ a.value = b.payload /\ a.text = b.payload
  ELSE a = UndefinedAction

\* C18: in the translation of a carousel each button is mapped by its kind:
\* open_url to an openUrl action with its title and url; say_something to a
\* messageBack action with its title and with value, text and displayText
\* its text; postback to a messageBack action with its title, value and text
\* its payload and no displayText; a button of any other kind raises no
\* error (the translation has a result) and leaves undefined at its position.
C18_ButtonSwitch ==
  trMsg # NoMsg /\ PayloadType(trEvent.payload) = "carousel" =>
    \A i \in 1..Len(trEvent.payload.elements) :
      LET buttons == trEvent.payload.elements[i].buttons
          actions == trMsg.attachments[i].content.buttons
      IN /\ DOMAIN actions = DOMAIN buttons
         /\ \A j \in DOMAIN buttons : SwitchedTo(actions[j], buttons[j])

\* a card with a button of an unknown kind followed by a postback button has
\* been translated: a hole, then the action of the postback
C18_Witness ==
  /\ trMsg # NoMsg
  /\ PayloadType(trEvent.payload) = "carousel"
  /\ \E i \in 1..Len(trEvent.payload.elements) :
       LET buttons == trEvent.payload.elements[i].buttons IN
       /\ Len(buttons) = 2
       /\ buttons[1].type = "call"
       /\ buttons[2].type = "postback"
       /\ trMsg.attachments[i].content.buttons[1] = UndefinedAction
       /\ trMsg.attachments[i].content.buttons[2].type = "messageBack"

(* ------------------------------- C19 ---------------------------------- *)

\* C19: with a store that answers every operation, a sendOutgoingEvent of a
\* supported kind that starts after an InboundEvent of its thread was
\* emitted never takes the missing-reference path and, once settled, has
\* called the adapter, whatever the interleaving of callbacks and sends.
C19_SendAfterInboundDelivers ==
  \A t \in AllTasks :
    Sent(t) /\ KindOf(ev[t]) \in SupportedKinds /\ emittedAtStart[t] =>
      /\ log[t] # WarnNoReference
      /\ pc[t] \in {"send_settled", "done"} => Len(adapterCalls[t]) > 0

(* ------------------------------- C20 ---------------------------------- *)

\* C20: with operations run one at a time, an inbound callback whose store
\* write has failed leaves the in-process mapping without a handle for its
\* thread, so that the next record of the thread is not skipped as known.
C20_RecordAllOrNothing ==
  \A t \in Tasks :
    IsInbound(t) /\ StoreFailed(t) /\ pc[t] = "done" =>
      /\ inMemoryConversationRefs[act[t].threadId] \notin Handles
      /\ ~SetKnown(act[t].threadId)

TypeOK ==
  /\ inMemoryConversationRefs \in [Threads -> Refs]
  /\ kvs \in [Threads -> Refs]
  /\ \A t \in Tasks : Len(nextCalls[t]) <= 2 /\ Len(adapterCalls[t]) <= 1

====
